---- MODULE Spec2Model ----
(***************************************************************************)
(* After School Classes backend (src/server.js): the lessons and orders    *)
(* collections, the startup seeding, and the handlers of GET /lessons,     *)
(* POST /orders, PUT /lessons/:id and GET /search.                         *)
(*                                                                         *)
(* Strings that the code inspects character by character (name, phone, q,  *)
(* subject, location) are sequences of one-character strings.  Identifiers *)
(* and image file names are only compared, and stay opaque strings.        *)
(* Every await of a handler is a point where other handlers may run: a     *)
(* handler is one action per database call, made of the call and of the    *)
(* synchronous code around it.  A database call may reject; the rejected   *)
(* call has no effect on the collections.  A response is held in `last`    *)
(* while it is written, and Delivered ends it before the next step.        *)
(***************************************************************************)
EXTENDS Integers, Sequences, FiniteSets, TLC

(* ------------------------------ bounds --------------------------------- *)

\* HTTP requests accepted over one behaviour.
MaxReq == 3
\* Longest lessonIds array of a request body.
MaxIds == 2

(* ------------------------------ strings -------------------------------- *)

UpperCase == <<"A","B","C","D","E","F","G","H","I","J","K","L","M",
               "N","O","P","Q","R","S","T","U","V","W","X","Y","Z">>
LowerCase == <<"a","b","c","d","e","f","g","h","i","j","k","l","m",
               "n","o","p","q","r","s","t","u","v","w","x","y","z">>
DigitChars == <<"0","1","2","3","4","5","6","7","8","9">>

Range(s) == {s[i] : i \in DOMAIN s}
Letters == Range(UpperCase) \cup Range(LowerCase)
Digits == Range(DigitChars)
Whitespace == {" "}

ToLower(c) ==
  IF c \in Range(UpperCase)
    THEN LowerCase[CHOOSE i \in DOMAIN UpperCase : UpperCase[i] = c]
    ELSE c

DigitVal(c) == (CHOOSE i \in DOMAIN DigitChars : DigitChars[i] = c) - 1

(* ------------------------------ identifiers ---------------------------- *)

\* The ObjectIds that initializeSampleData generates, in array order.
SeedIds == <<"L01","L02","L03","L04","L05","L06","L07","L08","L09","L10">>
\* A well-formed ObjectId that names no lesson, and a string that is no ObjectId.
GhostId == "L99"
BadId == "not-an-id"

\* ObjectId.isValid on the identifiers above.
ObjectIdIsValid(id) == id \in Range(SeedIds) \cup {GhostId}

(* ------------------------------ seed data ------------------------------ *)

Lesson(id, subject, location, price, spaces, image) ==
  [_id |-> id, subject |-> subject, location |-> location,
   price |-> price, spaces |-> spaces, image |-> image]

sampleLessons ==
  << Lesson(SeedIds[1], <<"M","a","t","h">>, <<"L","o","n","d","o","n">>, 50, 5, "math.jpg"),
     Lesson(SeedIds[2], <<"E","n","g","l","i","s","h">>,
            <<"M","a","n","c","h","e","s","t","e","r">>, 45, 5, "english.jpg"),
     Lesson(SeedIds[3], <<"S","c","i","e","n","c","e">>,
            <<"B","i","r","m","i","n","g","h","a","m">>, 55, 5, "science.jpg"),
     Lesson(SeedIds[4], <<"A","r","t">>, <<"L","e","e","d","s">>, 40, 5, "art.jpg"),
     Lesson(SeedIds[5], <<"M","u","s","i","c">>,
            <<"L","i","v","e","r","p","o","o","l">>, 60, 5, "music.jpg"),
     Lesson(SeedIds[6], <<"D","r","a","m","a">>, <<"B","r","i","s","t","o","l">>, 35, 5, "drama.jpg"),
     Lesson(SeedIds[7], <<"P","r","o","g","r","a","m","m","i","n","g">>,
            <<"G","l","a","s","g","o","w">>, 70, 5, "programming.jpg"),
     Lesson(SeedIds[8], <<"S","p","o","r","t","s">>, <<"C","a","r","d","i","f","f">>, 30, 5, "sports.jpg"),
     Lesson(SeedIds[9], <<"D","a","n","c","e">>,
            <<"E","d","i","n","b","u","r","g","h">>, 45, 5, "dance.jpg"),
     Lesson(SeedIds[10], <<"C","o","o","k","i","n","g">>,
            <<"N","e","w","c","a","s","t","l","e">>, 65, 5, "cooking.jpg") >>

(* ------------------------------ state ---------------------------------- *)

VARIABLES
  started,   \* the server process is up: connected and listening
  lessons,   \* the lessons collection, in natural (insertion) order
  orders,    \* the orders collection, in natural (insertion) order
  ord,       \* the POST /orders handlers in flight, one per slot
  srch,      \* the GET /search handler in flight
  last,      \* the latest response sent (or the outcome of the latest launch)
  nReq       \* requests accepted so far

vars == <<started, lessons, orders, ord, srch, last, nReq>>

Procs == {1, 2}
Idle == [pc |-> "idle"]

Init ==
  /\ started = FALSE
  /\ lessons = <<>>
  /\ orders = <<>>
  /\ ord = [p \in Procs |-> Idle]
  /\ srch = Idle
  /\ last = [ep |-> "none"]
  /\ nReq = 0

NoResponse == [ep |-> "none"]

\* No response is being written.
Quiet == last = NoResponse

\* res.json() has written the response held in last.
Delivered ==
  /\ ~Quiet
  /\ last' = NoResponse
  /\ UNCHANGED <<started, lessons, orders, ord, srch, nReq>>

(* ------------------------------ startup -------------------------------- *)

\* A variant of initializeSampleData that inserts the sample lessons whatever
\* countDocuments returns.
initializeSampleDataAlways(coll, countOk, insertOk) ==
  IF countOk /\ insertOk THEN coll \o sampleLessons ELSE coll

\* initializeSampleData: the lessons collection after the call.  countOk and
\* insertOk tell whether countDocuments and insertMany resolve; a rejection is
\* caught and logged, and the collection stays as it was.
initializeSampleData(coll, countOk, insertOk) ==
  IF ~countOk THEN coll
  ELSE IF Len(coll) = 0
    THEN (IF insertOk THEN sampleLessons ELSE coll)
    ELSE coll

\* The outcomes of the three database calls of a launch that matter: the
\* calls after a rejected one are not made.
LaunchOutcomes ==
  {o \in [connectOk : BOOLEAN, countOk : BOOLEAN, insertOk : BOOLEAN] :
     /\ ~o.connectOk => (o.countOk /\ o.insertOk)
     /\ ~o.countOk => o.insertOk
     /\ (~o.insertOk) => Len(lessons) = 0}

\* connectToDatabase().then(app.listen): a failed connection ends the process,
\* otherwise the data is initialized and the server listens.
connectToDatabase ==
  /\ Quiet
  /\ ~started
  /\ \E o \in LaunchOutcomes :
       IF ~o.connectOk
         THEN /\ started' = FALSE
              /\ lessons' = lessons
              /\ last' = [ep |-> "startup", status |-> "exit"]
         ELSE /\ started' = TRUE
              /\ lessons' = initializeSampleData(lessons, o.countOk, o.insertOk)
              /\ last' = [ep |-> "startup",
                          status |-> IF o.countOk /\ o.insertOk THEN "ok" ELSE "seed-error"]
  /\ UNCHANGED <<orders, ord, srch, nReq>>

\* SIGINT: the connection is closed and the process exits; handlers in flight
\* end with it.
Shutdown ==
  /\ Quiet
  /\ started
  /\ started' = FALSE
  /\ ord' = [p \in Procs |-> Idle]
  /\ srch' = Idle
  /\ UNCHANGED <<lessons, orders, last, nReq>>

\* The server takes one more request.
Accept ==
  /\ Quiet
  /\ started
  /\ nReq < MaxReq
  /\ nReq' = nReq + 1

(* ------------------------------ GET /lessons --------------------------- *)

GetLessons ==
  /\ Accept
  /\ \E findOk \in BOOLEAN :
       last' = IF findOk
                 THEN [ep |-> "GET /lessons", status |-> 200, body |-> lessons]
                 ELSE [ep |-> "GET /lessons", status |-> 500,
                       error |-> "Failed to fetch lessons"]
  /\ UNCHANGED <<started, lessons, orders, ord, srch>>

(* ------------------------------ PUT /lessons/:id ----------------------- *)

\* The record r without the fields outside S.
Restrict(r, S) == [k \in (DOMAIN r) \cap S |-> r[k]]

\* The fields the handler reads from req.body; a field of the body is
\* undefined exactly when it is not in the body's domain.
UpdatableFields == {"spaces", "subject", "location", "price"}

\* A variant of updateFields that passes the whole body to $set.
updateFieldsWholeBody(body) == body

\* updateFields as the handler builds it: the four fields that are not undefined.
updateFields(body) == Restrict(body, UpdatableFields)

\* { $set: set } applied to one document.
ApplySet(doc, set) ==
  [k \in (DOMAIN doc) \cup (DOMAIN set) |-> IF k \in DOMAIN set THEN set[k] ELSE doc[k]]

\* The indices of the documents of coll with the given _id.
Matching(coll, id) == {i \in DOMAIN coll : coll[i]._id = id}

\* A variant of updateOne with { upsert: true }: a document is inserted when
\* none matches.
updateOneUpsert(coll, id, set) ==
  IF Matching(coll, id) = {} THEN Append(coll, ApplySet([_id |-> id], set))
  ELSE LET first == CHOOSE i \in Matching(coll, id) : \A j \in Matching(coll, id) : i <= j
       IN [coll EXCEPT ![first] = ApplySet(coll[first], set)]

\* collection.updateOne({_id: id}, {$set: set}): the first match is updated,
\* nothing is inserted when there is none.
updateOne(coll, id, set) ==
  IF Matching(coll, id) = {} THEN coll
  ELSE LET first == CHOOSE i \in Matching(coll, id) : \A j \in Matching(coll, id) : i <= j
       IN [coll EXCEPT ![first] = ApplySet(coll[first], set)]

\* result.matchedCount of that call.
matchedCount(coll, id) == IF Matching(coll, id) = {} THEN 0 ELSE 1

\* Request parameters and bodies of PUT /lessons/:id.
PutFull == [spaces |-> -1, subject |-> <<"5">>,
            location |-> <<"B","a","t","h">>, price |-> 1]
PutBodies ==
  {Restrict(PutFull, S) : S \in {{}, {"spaces"}, {"subject"}, {"location", "price"},
                                 UpdatableFields}}
    \cup {[spaces |-> 1], [image |-> "x.jpg"], [image |-> "x.jpg", spaces |-> 0]}
PutRequests ==
  {[id |-> SeedIds[1], body |-> b] : b \in PutBodies}
    \cup {[id |-> i, body |-> b] : i \in {GhostId, BadId},
                                   b \in {Restrict(PutFull, {}), [spaces |-> 1]}}

PutResponse(req, dbOk) ==
  LET ep == "PUT /lessons/:id"
  IN IF ~ObjectIdIsValid(req.id)
       THEN [ep |-> ep, req |-> req, status |-> 400, error |-> "Invalid lesson ID"]
     ELSE IF DOMAIN updateFields(req.body) = {}
       THEN [ep |-> ep, req |-> req, status |-> 400, error |-> "No fields to update"]
     ELSE IF ~dbOk
       THEN [ep |-> ep, req |-> req, status |-> 500, error |-> "Failed to update lesson"]
     ELSE IF matchedCount(lessons, req.id) = 0
       THEN [ep |-> ep, req |-> req, status |-> 404, error |-> "Lesson not found"]
     ELSE [ep |-> ep, req |-> req, status |-> 200,
           message |-> "Lesson updated successfully",
           updatedFields |-> updateFields(req.body)]

\* The lessons collection after the handler: updateOne runs when the two
\* checks before it pass and the call resolves.
PutEffect(req, dbOk) ==
  IF ObjectIdIsValid(req.id) /\ DOMAIN updateFields(req.body) # {} /\ dbOk
    THEN updateOne(lessons, req.id, updateFields(req.body))
    ELSE lessons

PutLesson ==
  /\ Accept
  /\ \E req \in PutRequests, dbOk \in BOOLEAN :
       /\ last' = PutResponse(req, dbOk)
       /\ lessons' = PutEffect(req, dbOk)
  /\ UNCHANGED <<started, orders, ord, srch>>

(* ------------------------------ POST /orders --------------------------- *)

\* /^[A-Za-z\s]+$/.test(s) and /^\d+$/.test(s).
nameRegexTest(s) == Len(s) >= 1 /\ \A i \in DOMAIN s : s[i] \in Letters \cup Whitespace
phoneRegexTest(s) == Len(s) >= 1 /\ \A i \in DOMAIN s : s[i] \in Digits

\* A request body holds the fields it was sent with.  lessonIds is an array
\* (isArray, with its items) or another truthy value (not isArray).
OrderIds == {SeedIds[1], GhostId, BadId}
IdArrays == UNION {[1..n -> OrderIds] : n \in 0..MaxIds}
LessonIdsValues == {[isArray |-> TRUE, items |-> a] : a \in IdArrays}
                     \cup {[isArray |-> FALSE, items |-> <<>>]}
NameValues == {<<"J","o">>, <<"J","2">>}
PhoneValues == {<<"5","5">>, <<"5","-","5">>}
OrderFull == [name : NameValues, phone : PhoneValues, lessonIds : LessonIdsValues]
OrderFields == {"name", "phone", "lessonIds"}
\* Every body with a well-formed name and phone, and the bodies with another
\* name or phone or a missing field for lessonIds missing, empty or of one
\* lesson.
OrderBodies ==
  {b \in {Restrict(f, S) : f \in OrderFull, S \in SUBSET OrderFields} :
     \/ /\ "name" \in DOMAIN b /\ nameRegexTest(b.name)
        /\ "phone" \in DOMAIN b /\ phoneRegexTest(b.phone)
     \/ "lessonIds" \notin DOMAIN b
     \/ b.lessonIds.items \in {<<>>, <<SeedIds[1]>>}}

\* !x for a field of the body: undefined, or the empty string.
Falsy(body, field) == field \notin DOMAIN body \/ body[field] = <<>>

OrderEp == "POST /orders"
Reject(body, status, error, valid) ==
  [kind |-> "respond",
   res |-> [ep |-> OrderEp, req |-> body, status |-> status, error |-> error,
            validLessons |-> valid]]

\* A variant of FieldError that tests the phone before the name.
FieldErrorPhoneFirst(body) ==
  IF \/ Falsy(body, "name") \/ Falsy(body, "phone")
     \/ "lessonIds" \notin DOMAIN body \/ ~body.lessonIds.isArray
    THEN "Name, phone, and lessonIds array are required"
  ELSE IF Len(body.lessonIds.items) = 0
    THEN "At least one lesson must be selected"
  ELSE IF ~phoneRegexTest(body.phone)
    THEN "Phone must contain numbers only"
  ELSE IF ~nameRegexTest(body.name)
    THEN "Name must contain letters only"
  ELSE ""

\* The checks made before the loop; "" when they all pass.
FieldError(body) ==
  IF \/ Falsy(body, "name") \/ Falsy(body, "phone")
     \/ "lessonIds" \notin DOMAIN body \/ ~body.lessonIds.isArray
    THEN "Name, phone, and lessonIds array are required"
  ELSE IF Len(body.lessonIds.items) = 0
    THEN "At least one lesson must be selected"
  ELSE IF ~nameRegexTest(body.name)
    THEN "Name must contain letters only"
  ELSE IF ~phoneRegexTest(body.phone)
    THEN "Phone must contain numbers only"
  ELSE ""

\* collection.findOne({_id: id}): the first match, <<>> standing for null.
findOne(coll, id) ==
  IF Matching(coll, id) = {} THEN <<>>
  ELSE <<coll[CHOOSE i \in Matching(coll, id) : \A j \in Matching(coll, id) : i <= j]>>

\* The loop body up to its await: the format check of lessonIds[i], then the
\* handler waits for findOne.
BeforeLookup(body, i, valid) ==
  IF ~ObjectIdIsValid(body.lessonIds.items[i])
    THEN Reject(body, 400, "Invalid lesson ID format", valid)
    ELSE [kind |-> "continue",
          proc |-> [pc |-> "lookup", body |-> body, i |-> i, validLessons |-> valid]]

\* The loop from the result of findOne for lessonIds[i] to the next await:
\* the next findOne, or insertOne after the last identifier.
AfterLookup(body, i, valid, dbOk) ==
  LET found == findOne(lessons, body.lessonIds.items[i])
  IN IF ~dbOk THEN Reject(body, 500, "Failed to create order", valid)
     ELSE IF found = <<>> THEN Reject(body, 404, "Lesson not found with ID", valid)
     ELSE IF found[1].spaces < 1
       THEN Reject(body, 400, "No spaces available for lesson", valid)
     ELSE IF i < Len(body.lessonIds.items)
       THEN BeforeLookup(body, i + 1, Append(valid, found[1]))
     ELSE [kind |-> "continue",
           proc |-> [pc |-> "insert", body |-> body, i |-> i,
                     validLessons |-> Append(valid, found[1])]]

\* The handler from the request to its second await.
OrderBegin(body, dbOk) ==
  IF FieldError(body) # "" THEN Reject(body, 400, FieldError(body), <<>>)
  ELSE IF BeforeLookup(body, 1, <<>>).kind = "respond" THEN BeforeLookup(body, 1, <<>>)
  ELSE AfterLookup(body, 1, <<>>, dbOk)

\* The order document and the 201 response.  insertedId is the next unused
\* identifier; orderDate is not modelled.
OrderDoc(body, valid) ==
  [_id |-> Len(orders) + 1, name |-> body.name, phone |-> body.phone,
   lessonIds |-> body.lessonIds.items,
   lessonNames |-> [k \in DOMAIN valid |-> valid[k].subject]]

Created(body, valid) ==
  [ep |-> OrderEp, req |-> body, status |-> 201,
   message |-> "Order created successfully", orderId |-> Len(orders) + 1,
   validLessons |-> valid,
   lessons |-> [k \in DOMAIN valid |->
                  [subject |-> valid[k].subject, location |-> valid[k].location,
                   price |-> valid[k].price]]]

\* What a step of the handler in slot p leaves: a response, or the handler
\* waiting for its next database call.
Step(p, outcome) ==
  IF outcome.kind = "respond"
    THEN /\ last' = outcome.res
         /\ ord' = [ord EXCEPT ![p] = Idle]
    ELSE /\ last' = last
         /\ ord' = [ord EXCEPT ![p] = outcome.proc]

\* A new request runs in the first free slot.
FreeSlot(p) == ord[p] = Idle /\ \A r \in Procs : r < p => ord[r] # Idle

PostOrders ==
  /\ Accept
  /\ \E p \in Procs, body \in OrderBodies, dbOk \in BOOLEAN :
       /\ FreeSlot(p)
       /\ Step(p, OrderBegin(body, dbOk))
  /\ UNCHANGED <<started, lessons, orders, srch>>

OrderLookup ==
  /\ Quiet
  /\ \E p \in Procs, dbOk \in BOOLEAN :
       /\ ord[p].pc = "lookup"
       /\ Step(p, AfterLookup(ord[p].body, ord[p].i, ord[p].validLessons, dbOk))
  /\ UNCHANGED <<started, lessons, orders, srch, nReq>>

\* A variant of InsertResult that counts the orders already placed for each
\* lesson and refuses the order when one of its lessons is full.
InsertResultGuarded(p, dbOk) ==
  LET ids == ord[p].body.lessonIds.items
      booked(id) == Cardinality({k \in DOMAIN orders :
                                   \E j \in DOMAIN orders[k].lessonIds :
                                     orders[k].lessonIds[j] = id})
      full == \E k \in DOMAIN ord[p].validLessons :
                booked(ids[k]) >= ord[p].validLessons[k].spaces
  IN IF dbOk /\ ~full
       THEN [orders |-> Append(orders, OrderDoc(ord[p].body, ord[p].validLessons)),
             res |-> Created(ord[p].body, ord[p].validLessons)]
     ELSE IF dbOk
       THEN [orders |-> orders,
             res |-> Reject(ord[p].body, 400, "No spaces available for lesson",
                            ord[p].validLessons).res]
     ELSE [orders |-> orders,
           res |-> Reject(ord[p].body, 500, "Failed to create order",
                          ord[p].validLessons).res]

\* A variant of InsertResult that answers 201 without the insert.
InsertResultLost(p, dbOk) ==
  IF dbOk
    THEN [orders |-> orders, res |-> Created(ord[p].body, ord[p].validLessons)]
    ELSE [orders |-> orders,
          res |-> Reject(ord[p].body, 500, "Failed to create order",
                         ord[p].validLessons).res]

\* insertOne and the response.
InsertResult(p, dbOk) ==
  IF dbOk
    THEN [orders |-> Append(orders, OrderDoc(ord[p].body, ord[p].validLessons)),
          res |-> Created(ord[p].body, ord[p].validLessons)]
    ELSE [orders |-> orders,
          res |-> Reject(ord[p].body, 500, "Failed to create order",
                         ord[p].validLessons).res]

\* A variant of OrderInsert that also takes one space from each lesson of the
\* order, once per occurrence in lessonIds.
OrderInsertDecrement ==
  /\ Quiet
  /\ \E p \in Procs, dbOk \in BOOLEAN :
       /\ ord[p].pc = "insert"
       /\ orders' = InsertResult(p, dbOk).orders
       /\ last' = InsertResult(p, dbOk).res
       /\ ord' = [ord EXCEPT ![p] = Idle]
       /\ lessons' =
            IF dbOk
              THEN [i \in DOMAIN lessons |->
                      [lessons[i] EXCEPT !.spaces =
                         @ - Cardinality({j \in DOMAIN ord[p].body.lessonIds.items :
                               ord[p].body.lessonIds.items[j] = lessons[i]._id})]]
              ELSE lessons
  /\ UNCHANGED <<started, srch, nReq>>

OrderInsert ==
  /\ Quiet
  /\ \E p \in Procs, dbOk \in BOOLEAN :
       /\ ord[p].pc = "insert"
       /\ orders' = InsertResult(p, dbOk).orders
       /\ last' = InsertResult(p, dbOk).res
       /\ ord' = [ord EXCEPT ![p] = Idle]
  /\ UNCHANGED <<started, lessons, srch, nReq>>

(* ------------------------------ GET /search ---------------------------- *)

\* new RegExp(q, 'i') for a pattern of letters, digits, "." and "(": "."
\* stands for any character, a "(" that nothing closes is a SyntaxError, every
\* other character stands for itself in either case.
RegExpThrows(q) == \E i \in DOMAIN q : q[i] = "("

\* searchRegex.test(s): the pattern matches at some position of s.
RegExpTest(q, s) ==
  \E start \in 1..(Len(s) - Len(q) + 1) :
    \A k \in DOMAIN q : q[k] = "." \/ ToLower(q[k]) = ToLower(s[start + k - 1])

\* isNaN(q) for a string of letters, digits, "." and "(": Number(q) is a
\* number when q is the empty string or a decimal literal.
IsNaN(q) ==
  ~ /\ \A i \in DOMAIN q : q[i] \in Digits \cup {"."}
    /\ Cardinality({i \in DOMAIN q : q[i] = "."}) <= 1
    /\ (Len(q) = 0 \/ \E i \in DOMAIN q : q[i] \in Digits)

\* parseInt(q): the value of the longest prefix of digits, NaN without one.
ParseInt(q) ==
  LET n == CHOOSE m \in 0..Len(q) :
             /\ \A i \in 1..m : q[i] \in Digits
             /\ (m < Len(q) => q[m + 1] \notin Digits)
      val[k \in 0..n] == IF k = 0 THEN 0 ELSE 10 * val[k - 1] + DigitVal(q[k])
  IN [nan |-> n = 0, val |-> val[n]]

\* isNaN(q) ? -1 : parseInt(q)
NumericOperand(q) == IF IsNaN(q) THEN [nan |-> FALSE, val |-> -1] ELSE ParseInt(q)

\* { field: v } on a numeric field: NaN equals no integer.
NumEq(x, v) == ~v.nan /\ x = v.val

\* find({ $or: [{subject: searchRegex}, {location: searchRegex}] })
textFind(coll, q) ==
  SelectSeq(coll, LAMBDA l : RegExpTest(q, l.subject) \/ RegExpTest(q, l.location))

\* find({ $or: [{price: n}, {spaces: n}] })
numericFind(coll, q) ==
  SelectSeq(coll, LAMBDA l : NumEq(l.price, NumericOperand(q))
                               \/ NumEq(l.spaces, NumericOperand(q)))

\* allResults.filter((lesson, index, self) => index === self.findIndex(same _id))
uniqueResults(all) ==
  LET keep(i) == \A j \in 1..(i - 1) : all[j]._id # all[i]._id
      f[i \in 0..Len(all)] ==
        IF i = 0 THEN <<>>
        ELSE IF keep(i) THEN Append(f[i - 1], all[i]) ELSE f[i - 1]
  IN f[Len(all)]

\* req.query: with q, or without it.
Queries == {<<>>, <<"m","A","t">>, <<"5">>, <<"5","0">>, <<"z","z">>, <<".">>, <<"(">>}
SearchRequests == {[q |-> q] : q \in Queries} \cup {Restrict([q |-> <<>>], {})}

SearchEp == "GET /search"
SearchError(req, status, error) ==
  [kind |-> "respond",
   res |-> [ep |-> SearchEp, req |-> req, status |-> status, error |-> error]]

\* The handler from the request to its second await.
SearchBegin(req, dbOk) ==
  IF Falsy(req, "q") THEN SearchError(req, 400, "Search query is required")
  ELSE IF RegExpThrows(req.q) \/ ~dbOk
    THEN SearchError(req, 500, "Failed to search lessons")
  ELSE [kind |-> "continue",
        proc |-> [pc |-> "numeric", req |-> req,
                  textResults |-> textFind(lessons, req.q)]]

\* The handler from the result of the second find to the response.
SearchEnd(s, dbOk) ==
  IF ~dbOk THEN SearchError(s.req, 500, "Failed to search lessons").res
  ELSE [ep |-> SearchEp, req |-> s.req, status |-> 200,
        textResults |-> s.textResults,
        body |-> uniqueResults(s.textResults \o numericFind(lessons, s.req.q))]

GetSearch ==
  /\ Accept
  /\ srch = Idle
  /\ \E req \in SearchRequests, dbOk \in BOOLEAN :
       LET o == SearchBegin(req, dbOk)
       IN IF o.kind = "respond"
            THEN last' = o.res /\ srch' = srch
            ELSE last' = last /\ srch' = o.proc
  /\ UNCHANGED <<started, lessons, orders, ord>>

SearchNumeric ==
  /\ Quiet
  /\ srch # Idle
  /\ \E dbOk \in BOOLEAN : last' = SearchEnd(srch, dbOk)
  /\ srch' = Idle
  /\ UNCHANGED <<started, lessons, orders, ord, nReq>>

Next ==
  \/ connectToDatabase
  \/ Shutdown
  \/ Delivered
  \/ GetLessons
  \/ PutLesson
  \/ PostOrders
  \/ OrderLookup
  \/ OrderInsert
  \/ GetSearch
  \/ SearchNumeric

Spec == Init /\ [][Next]_vars
(* ------------------------------ properties ----------------------------- *)

Ids(docs) == [i \in DOMAIN docs |-> docs[i]._id]
PutEp == "PUT /lessons/:id"
IsResponse(r, ep, status) == r.ep = ep /\ r.status = status
\* The lesson with identifier id is in the collection with the given spaces.
HasSpaces(id, n) == \E i \in DOMAIN lessons : lessons[i]._id = id /\ lessons[i].spaces = n
Books(array, id) == \E j \in DOMAIN array : array[j] = id

\* C1: a POST /orders handler that has passed the spaces check of all its
\* lessons and whose insertOne resolves ends with 201 and one more order,
\* whatever the other handlers did since the check: the check and the insert
\* are not atomic, so two handlers that both saw spaces = 1 both succeed.
C1_InsertAfterCheckSucceeds ==
  [][\A p \in Procs :
       (ord[p].pc = "insert" /\ ord'[p] = Idle /\ started' /\ last'.status # 500)
         => /\ IsResponse(last', OrderEp, 201)
            /\ Len(orders') = Len(orders) + 1
            /\ orders'[Len(orders')].lessonIds = ord[p].body.lessonIds.items]_vars

\* Two handlers read spaces = 1 for the same lesson before either inserted:
\* one has just answered 201, the other waits for its insertOne.
C1_BothPassedCheck ==
  /\ IsResponse(last, OrderEp, 201)
  /\ Books(last.req.lessonIds.items, SeedIds[1])
  /\ last.validLessons[1].spaces = 1
  /\ HasSpaces(SeedIds[1], 1)
  /\ \E p \in Procs :
       /\ ord[p].pc = "insert"
       /\ Books(ord[p].body.lessonIds.items, SeedIds[1])
       /\ ord[p].validLessons[1].spaces = 1

\* C2: the lessons collection changes only in a launch or in a PUT
\* /lessons/:id; POST /orders, GET /lessons and GET /search leave every
\* lesson as it is, a 201 included.
C2_LessonsChangeOnlyByPut ==
  [][lessons' # lessons => last'.ep \in {PutEp, "startup"}]_vars

\* A second order for a lesson with one space has been accepted, and the
\* lesson still has one space.
C2_OrderedTwiceSpacesKept ==
  /\ IsResponse(last, OrderEp, 201)
  /\ Len(orders) = 2
  /\ \A k \in DOMAIN orders : Books(orders[k].lessonIds, SeedIds[1])
  /\ HasSpaces(SeedIds[1], 1)

AllSpacesNonNegative(coll) == \A i \in DOMAIN coll : coll[i].spaces >= 0
NegativeSpacesPut(r) ==
  /\ IsResponse(r, PutEp, 200)
  /\ "spaces" \in DOMAIN r.updatedFields
  /\ r.updatedFields.spaces < 0

FirstFailingCheck(b) ==
  IF \/ "name" \notin DOMAIN b \/ "phone" \notin DOMAIN b \/ "lessonIds" \notin DOMAIN b
     \/ b.name = <<>> \/ b.phone = <<>> \/ ~b.lessonIds.isArray THEN 1
  ELSE IF b.lessonIds.items = <<>> THEN 2
  ELSE IF \E i \in DOMAIN b.name : b.name[i] \notin Letters \cup Whitespace THEN 3
  ELSE IF \E i \in DOMAIN b.phone : b.phone[i] \notin Digits THEN 4
  ELSE 0

\* The response of POST /orders is the one of the first check that fails:
\* the field checks in order, then the identifiers in list order, each for
\* its format, its lesson and the spaces of that lesson.
C4_ResponseOfFirstFailure ==
  (last.ep = OrderEp /\ last.status # 500) =>
    LET b == last.req
        v == last.validLessons
        c == FirstFailingCheck(b)
    IN IF c = 1 THEN last.status = 400
                     /\ last.error = "Name, phone, and lessonIds array are required"
       ELSE IF c = 2 THEN last.status = 400
                     /\ last.error = "At least one lesson must be selected"
       ELSE IF c = 3 THEN last.status = 400
                     /\ last.error = "Name must contain letters only"
       ELSE IF c = 4 THEN last.status = 400
                     /\ last.error = "Phone must contain numbers only"
       ELSE /\ Len(v) <= Len(b.lessonIds.items)
            /\ \A j \in DOMAIN v : v[j]._id = b.lessonIds.items[j] /\ v[j].spaces >= 1
            /\ IF Len(v) = Len(b.lessonIds.items) THEN last.status = 201
               ELSE LET id == b.lessonIds.items[Len(v) + 1]
                    IN IF ~ObjectIdIsValid(id)
                         THEN last.status = 400 /\ last.error = "Invalid lesson ID format"
                       ELSE IF \A i \in DOMAIN lessons : lessons[i]._id # id
                         THEN last.status = 404 /\ last.error = "Lesson not found with ID"
                       ELSE /\ last.status = 400
                            /\ last.error = "No spaces available for lesson"
                            /\ \E i \in DOMAIN lessons :
                                 lessons[i]._id = id /\ lessons[i].spaces < 1

\* C4: POST /orders validates fail-fast in a fixed order, the first failing
\* check alone decides the response, and a rejected request inserts no order.
C4_FailFastValidation ==
  /\ []C4_ResponseOfFirstFailure
  /\ [][(last' # last /\ last'.ep = OrderEp /\ last'.status \in {400, 404})
          => orders' = orders]_vars

\* A request that lists a nonexistent identifier before a lesson without
\* spaces was answered 404.
C4_GhostBeforeFullLesson ==
  /\ IsResponse(last, OrderEp, 404)
  /\ last.req.lessonIds.items = <<GhostId, SeedIds[1]>>
  /\ HasSpaces(SeedIds[1], 0)

\* C5: a PUT /lessons/:id that answers 200 sets, on the lesson with the given
\* identifier, exactly the fields of subject, location, price and spaces that
\* the body holds, to the values of the body, and leaves the other fields of
\* that lesson, the other lessons and the orders as they were.
C5_PutSetsExactlyPresentFields ==
  [][(last' # last /\ IsResponse(last', PutEp, 200)) =>
       LET id == last'.req.id
           body == last'.req.body
           sent == {f \in {"subject", "location", "price", "spaces"} : f \in DOMAIN body}
       IN /\ orders' = orders
          /\ DOMAIN lessons' = DOMAIN lessons
          /\ \E i \in DOMAIN lessons : lessons[i]._id = id
          /\ DOMAIN last'.updatedFields = sent
          /\ \A i \in DOMAIN lessons :
               IF lessons[i]._id = id
                 THEN /\ DOMAIN lessons'[i] = DOMAIN lessons[i]
                      /\ \A f \in DOMAIN lessons[i] :
                           lessons'[i][f] = IF f \in sent THEN body[f] ELSE lessons[i][f]
                 ELSE lessons'[i] = lessons[i]]_vars

\* A body with spaces and image was applied: spaces changed, image did not.
C5_OnlySpacesChanged ==
  /\ IsResponse(last, PutEp, 200)
  /\ last.req.body = [image |-> "x.jpg", spaces |-> 0]
  /\ \E i \in DOMAIN lessons :
       /\ lessons[i]._id = last.req.id
       /\ lessons[i].spaces = 0
       /\ lessons[i].image = "math.jpg"
       /\ lessons[i].subject = <<"M","a","t","h">>

\* The status of PUT /lessons/:id follows the identifier format first, the
\* presence of a field to update second, and the database last.
C6_PutErrorOrder ==
  last.ep = PutEp =>
    LET wellFormed == last.req.id \in Range(SeedIds) \cup {GhostId}
        noField == \A f \in {"subject", "location", "price", "spaces"} :
                      f \notin DOMAIN last.req.body
        exists == \E i \in DOMAIN lessons : lessons[i]._id = last.req.id
    IN /\ ~wellFormed => (last.status = 400 /\ last.error = "Invalid lesson ID")
       /\ (wellFormed /\ noField) => (last.status = 400 /\ last.error = "No fields to update")
       /\ (wellFormed /\ ~noField /\ ~exists) => last.status \in {404, 500}
       /\ last.status = 404 => (~exists /\ last.error = "Lesson not found")

\* C6: PUT /lessons/:id answers 400 to a malformed identifier, 400 to a body
\* without any of the four fields (before any database access), 404 to an
\* identifier that matches no lesson, and leaves the lessons and the orders
\* unchanged in each of these cases (nothing is upserted).
C6_PutErrorsLeaveDatabase ==
  /\ []C6_PutErrorOrder
  /\ [][(last' # last /\ last'.ep = PutEp /\ last'.status # 200)
          => (lessons' = lessons /\ orders' = orders)]_vars

\* An update of a well-formed identifier that names no lesson was answered
\* 404 and the collection still holds the ten lessons.
C6_GhostUpdateNotFound ==
  /\ IsResponse(last, PutEp, 404)
  /\ last.req.id = GhostId
  /\ Ids(lessons) = SeedIds

\* C7: the orders collection only grows, by one document per 201 of POST
\* /orders: a step that changes it answers 201 and appends one order, a 201
\* always appends one, and the orders already there stay as they were.
C7_OrdersAppendOnly ==
  [][/\ orders' # orders =>
          /\ IsResponse(last', OrderEp, 201)
          /\ Len(orders') = Len(orders) + 1
          /\ SubSeq(orders', 1, Len(orders)) = orders
          /\ orders'[Len(orders')]._id = last'.orderId
     /\ (last' # last /\ IsResponse(last', OrderEp, 201)) => orders' # orders]_vars

\* After an accepted order, another one was refused for a missing lesson and
\* the first order is still the only one.
C7_RejectedAfterAccepted ==
  /\ IsResponse(last, OrderEp, 404)
  /\ Len(orders) = 1
  /\ orders[1]._id = 1
\* s contains q, letter case aside.
ContainsIgnoreCase(q, s) ==
  \E start \in 1..(Len(s) - Len(q) + 1) :
    \A k \in DOMAIN q : ToLower(q[k]) = ToLower(s[start + k - 1])

\* The number the numeric query of q compares with: the decimal value of a q
\* made of digits, the sentinel -1 for another q.
QueryNumber(q) ==
  LET val[k \in 0..Len(q)] == IF k = 0 THEN 0 ELSE 10 * val[k - 1] + DigitVal(q[k])
  IN IF \A i \in DOMAIN q : q[i] \in Digits THEN val[Len(q)] ELSE -1

\* C8: a 200 of GET /search holds each lesson identifier at most once, holds
\* only lessons whose subject or location contains q (letter case aside) or
\* whose price or spaces equals the number of q, holds every result of the
\* text query and every lesson the numeric query matches, and lists the
\* results of the text query first.
C8_SearchReturnsContainingLessons ==
  IsResponse(last, SearchEp, 200) =>
    LET q == last.req.q
        body == last.body
        inText(d) == \E k \in DOMAIN last.textResults : last.textResults[k]._id = d._id
    IN /\ \A i, j \in DOMAIN body : body[i]._id = body[j]._id => i = j
       /\ \A i \in DOMAIN body :
            \/ ContainsIgnoreCase(q, body[i].subject)
            \/ ContainsIgnoreCase(q, body[i].location)
            \/ body[i].price = QueryNumber(q)
            \/ body[i].spaces = QueryNumber(q)
       /\ \A k \in DOMAIN last.textResults : \E i \in DOMAIN body : body[i] = last.textResults[k]
       /\ \A k \in DOMAIN lessons :
            (lessons[k].price = QueryNumber(q) \/ lessons[k].spaces = QueryNumber(q))
              => \E i \in DOMAIN body : body[i]._id = lessons[k]._id
       /\ \A i, j \in DOMAIN body : (i < j /\ inText(body[j])) => inText(body[i])

\* C9: a 200 of GET /search for a q that is not a number holds only lessons
\* whose subject or location matches q.
C9_NonNumericQueryOnlyTextMatches ==
  (IsResponse(last, SearchEp, 200) /\ IsNaN(last.req.q)) =>
    \A i \in DOMAIN last.body :
      \/ RegExpTest(last.req.q, last.body[i].subject)
      \/ RegExpTest(last.req.q, last.body[i].location)

\* C10 as stated, for GET /lessons: a 200 lists exactly the ten seeded
\* identifiers.
C10_ListIsAlwaysTheTenSeeds ==
  IsResponse(last, "GET /lessons", 200) => Ids(last.body) = SeedIds

\* The lessons collection is empty or holds the ten seeded identifiers, a
\* launch whose database calls all resolve leaves the ten, and a 200 of GET
\* /lessons is the collection.
C10_CollectionIsEmptyOrSeeded ==
  /\ Ids(lessons) \in {<<>>, SeedIds}
  /\ (last.ep = "startup" /\ last.status = "ok") => Ids(lessons) = SeedIds
  /\ IsResponse(last, "GET /lessons", 200) => last.body = lessons

\* C10 as amended: lessons are created only by a launch that finds the
\* collection empty and whose countDocuments and insertMany resolve, which
\* inserts the ten fixed lessons with 5 spaces each; a launch against a
\* collection that is not empty inserts nothing; no request adds or removes a
\* lesson; GET /lessons returns the collection, which is empty as long as
\* every seeding so far was rejected and holds the ten identifiers after.
C10_SeededOnlyAtLaunchWhenEmpty ==
  /\ []C10_CollectionIsEmptyOrSeeded
  /\ [][Ids(lessons') # Ids(lessons) =>
          /\ last'.ep = "startup"
          /\ lessons = <<>>
          /\ lessons' = sampleLessons
          /\ Len(lessons') = 10
          /\ \A i \in DOMAIN lessons' : lessons'[i].spaces = 5]_vars

\* A launch found the ten lessons, one of them updated before, and inserted
\* nothing.
C10_RelaunchKeepsCollection ==
  /\ last.ep = "startup"
  /\ last.status = "ok"
  /\ Len(lessons) = 10
  /\ lessons # sampleLessons
====
